---- MODULE Spec2Model ----
(***************************************************************************)
(* Verification model of terraform-provider-m365.                         *)
(*                                                                         *)
(* Part 1 (specification Spec): the CRUD handlers of the assignment filter *)
(* resource, in the two variants the repository holds:                     *)
(*   "crud"    internal/resources/deviceandappmanagement/beta/             *)
(*             assignmentFilter/crud.go                                    *)
(*   "part000" unnamed/part_000 (resource file with inline handlers)       *)
(* Each handler is one action: it reads the request, runs every step of    *)
(* the Go function and leaves the response (state, diagnostics) together   *)
(* with a record of the Graph calls it issued and the steps it ran.        *)
(*                                                                         *)
(* Part 2 (specification SpecCA): the conditional access policy            *)
(* constructor, construct.go, as a pure function applied to attribute      *)
(* models built field by field.                                            *)
(*                                                                         *)
(* Further specifications: SpecConc (concurrent invocations on one         *)
(* resource struct), SpecDirect (handlers called without a configured      *)
(* client), SpecProvider (M365Provider.Configure and the Configure of the  *)
(* Cloud PC provisioning policy resource), SpecValidate (the validators    *)
(* of the provider schema, validators.go).                                 *)
(***************************************************************************)
EXTENDS Integers, Sequences, FiniteSets, TLC

VARIABLES
    variant,    \* which source file's handlers this resource runs
    isCreate,   \* r.isCreate (read by crud.go Update only)
    client,     \* r.client: Nil or the beta Graph client
    ready,      \* the last Configure returned without an error diagnostic
    state,      \* Terraform's stored state of the instance: Absent or a model
    op,         \* the handler that ran last
    in,         \* the inputs of that invocation
    pre,        \* the stored state when it started
    diags,      \* resp.Diagnostics of that invocation
    calls,      \* the Graph calls it issued, in order
    trace,      \* the steps it ran, in order
    panicked,   \* it ended in a nil-pointer panic
    data,       \* conditional access attribute model (SpecCA)
    nSet,       \* number of fields set on it so far (SpecCA)
    result,     \* what constructResource returned for it (SpecCA)
    inst,       \* the invocations on two resource instances (SpecConc)
    prov,       \* the provider and its last Configure (SpecProvider)
    cpc,        \* the Cloud PC provisioning policy resource and its last Configure
    valid       \* the last run of a validator of the provider schema (SpecValidate)

crudVars == <<variant, isCreate, client, ready, state, op, in, pre, diags, calls, trace, panicked>>
caVars == <<data, nSet, result>>
schemaVars == <<cpc, valid>>
vars == <<variant, isCreate, client, ready, state, op, in, pre, diags, calls, trace, panicked,
          data, nSet, result, inst, prov, cpc, valid>>

----------------------------------------------------------------------------
(* Values *)

Nil == "<nil>"          \* a nil pointer
Null == "<null>"        \* a null (or unknown) framework value
Unknown == "<unknown>"  \* an unknown framework value, where the code tells it from null
\* no state entry for the instance (a model none of whose fields is a value)
Absent == [id |-> "<absent>", cfg |-> "<absent>", stamp |-> "<absent>"]
\* no plan in the request
NoPlan == [id |-> "<none>", cfg |-> "<none>", stamp |-> "<none>"]
Error == "error"
Warning == "warning"

Variants == {"crud", "part000"}
IDs == {"id1", "id2"}               \* identifiers the Graph API hands out
Cfgs == {"cfgA", "cfgB"}            \* user-settable attribute values
Stamp == "t"                        \* a server-side computed value
\* result of one Graph call; "timeout": the context's deadline expired and
\* the client returned the context's error
Outcomes == {"ok", "notfound", "timeout", "error"}
DefaultTimeout == "30s"             \* 30*time.Second
Timeouts == {Null, "60s"}           \* the operation's entry of the timeouts attribute

\* types.String.ValueString(): "" for null and unknown
ValueString(s) == IF s \in {Null, Unknown} THEN "" ELSE s

HasError(ds) == \E i \in 1..Len(ds) : ds[i] = Error
HasWarning(ds) == \E i \in 1..Len(ds) : ds[i] = Warning

\* what one handler invocation leaves behind
R(st, ds, cs, tr) == [state |-> st, diags |-> ds, calls |-> cs, trace |-> tr, panicked |-> FALSE]
\* a nil-pointer dereference: the handler does not return
Panic(st, ds, cs, tr) == [state |-> st, diags |-> ds, calls |-> cs, trace |-> tr, panicked |-> TRUE]

\* a Graph call issued with context ctx (here: the context's timeout)
Call(ctx, verb, id) == [ctx |-> ctx, verb |-> verb, id |-> id]

\* data.Timeouts.<Op>(ctx, 30*time.Second); context.WithTimeout(ctx, <op>Timeout)
WithTimeout(i) == IF i.timeout = Null THEN DefaultTimeout ELSE i.timeout

\* common.IsNotFoundError(err)
IsNotFoundError(outcome) == outcome = "notfound"

\* constructResource of package graphBetaAssignmentFilter: request body or error
constructAssignmentFilter(plan, fails) ==
    IF fails THEN [err |-> TRUE, body |-> Nil]
    ELSE [err |-> FALSE, body |-> [cfg |-> plan.cfg]]

\* mapRemoteStateToTerraform: every field of the model from the remote resource
mapRemoteStateToTerraform(model, remote) ==
    [id |-> remote.id, cfg |-> remote.cfg, stamp |-> remote.stamp]

\* the resource a successful POST or GET returns
Remote(id, cfg) == [id |-> id, cfg |-> cfg, stamp |-> Stamp]

----------------------------------------------------------------------------
(* Inputs of one invocation: what the framework and the Graph API hand the  *)
(* handler.  getErr: req.Plan.Get / req.State.Get returned an error         *)
(* diagnostic; timeoutErr: the timeouts attribute did; timeout: the value   *)
(* configured for the operation's timeout; constructErr: the                *)
(* constructor fails on this plan; outcome, respId, respCfg: the Graph      *)
(* call's result; plan: the planned model; providerData: Configure's input. *)

ProviderDatas == {Nil, "notGraphClients", "graphClientsNilBeta", "graphClients"}

NoIn ==
    [getErr |-> FALSE, timeoutErr |-> FALSE, timeout |-> Null, constructErr |-> FALSE,
     outcome |-> "ok", respId |-> "id1", respCfg |-> "cfgA",
     plan |-> NoPlan, providerData |-> Nil]

\* the plan of a Create: computed attributes are not known yet
CreatePlans == [id : {Null}, cfg : Cfgs, stamp : {Null}]

\* the plan of an Update on stored state st: the id is carried over from the
\* state or left unknown, computed attributes are unknown
UpdatePlans(st) == [id : {st.id, Null}, cfg : Cfgs, stamp : {Null}]

\* Inputs a handler never looks at are left at their defaults: every handler
\* returns on getErr before it reads anything else, returns on timeoutErr
\* before it calls the constructor, and issues no call when the constructor
\* failed.
Relevant(i) ==
    /\ i.getErr => ~i.timeoutErr
    /\ (i.getErr \/ i.timeoutErr) => (i.timeout = Null /\ ~i.constructErr)
    /\ (i.getErr \/ i.timeoutErr \/ i.constructErr) =>
            (i.outcome = "ok" /\ i.respId = "id1" /\ i.respCfg = "cfgA")

CreateInputs ==
    {i \in [getErr : BOOLEAN, timeoutErr : BOOLEAN, timeout : Timeouts, constructErr : BOOLEAN,
            outcome : Outcomes, respId : IDs, respCfg : {"cfgA"},
            plan : CreatePlans, providerData : {Nil}] : Relevant(i)}

ReadInputs ==
    {i \in [getErr : BOOLEAN, timeoutErr : BOOLEAN, timeout : Timeouts, constructErr : {FALSE},
            outcome : Outcomes, respId : {"id1"}, respCfg : Cfgs,
            plan : {NoPlan}, providerData : {Nil}] : Relevant(i)}

UpdateInputs(st) ==
    {i \in [getErr : BOOLEAN, timeoutErr : BOOLEAN, timeout : Timeouts, constructErr : BOOLEAN,
            outcome : Outcomes, respId : {"id1"}, respCfg : {"cfgA"},
            plan : UpdatePlans(st), providerData : {Nil}] : Relevant(i)}

DeleteInputs ==
    {i \in [getErr : BOOLEAN, timeoutErr : BOOLEAN, timeout : Timeouts, constructErr : {FALSE},
            outcome : Outcomes, respId : {"id1"}, respCfg : {"cfgA"},
            plan : {NoPlan}, providerData : {Nil}] : Relevant(i)}

ConfigureInputs == {[NoIn EXCEPT !.providerData = pd] : pd \in ProviderDatas}

----------------------------------------------------------------------------
(* AssignmentFilterResource.Configure, part_000 lines 55-85 *)

\* mutant: a nil BetaClient is taken over without a diagnostic
ResourceConfigure_TakesNilBeta(cl, pd) ==
    IF pd = Nil THEN [client |-> cl, diags |-> <<Error>>]
    ELSE IF pd \notin {"graphClientsNilBeta", "graphClients"}
        THEN [client |-> cl, diags |-> <<Error>>]
    ELSE IF pd = "graphClientsNilBeta" THEN [client |-> Nil, diags |-> <<>>]
    ELSE [client |-> "beta", diags |-> <<>>]

ResourceConfigure(cl, pd) ==
    IF pd = Nil THEN [client |-> cl, diags |-> <<Error>>]
    ELSE IF pd \notin {"graphClientsNilBeta", "graphClients"}
        THEN [client |-> cl, diags |-> <<Error>>]
    ELSE IF pd = "graphClientsNilBeta" THEN [client |-> cl, diags |-> <<Error>>]
    ELSE [client |-> "beta", diags |-> <<>>]

----------------------------------------------------------------------------
(* The handlers of crud.go *)

\* mutant: the POST error branch persists the plan
CreateCrud_PersistsOnPostError(cl, st, i) ==
    IF i.getErr THEN R(st, <<Error>>, <<>>, <<>>)
    ELSE IF i.timeoutErr THEN R(st, <<Error>>, <<>>, <<>>)
    ELSE LET c == constructAssignmentFilter(i.plan, i.constructErr) IN
        IF c.err THEN R(st, <<Error>>, <<>>, <<"construct">>)
        ELSE IF cl = Nil THEN Panic(st, <<>>, <<>>, <<"construct">>)
        ELSE IF i.outcome # "ok"
            THEN R(i.plan, <<Error>>, <<Call(WithTimeout(i), "POST", "")>>, <<"construct", "post", "persist">>)
        ELSE LET assignmentFilter == Remote(i.respId, c.body.cfg)
                 plan1 == [i.plan EXCEPT !.id = assignmentFilter.id]
                 plan2 == mapRemoteStateToTerraform(plan1, assignmentFilter)
             IN R(plan2, <<>>, <<Call(WithTimeout(i), "POST", "")>>,
                  <<"construct", "post", "captureId", "map", "persist">>)

CreateCrud(cl, st, i) ==
    IF i.getErr THEN R(st, <<Error>>, <<>>, <<>>)
    ELSE IF i.timeoutErr THEN R(st, <<Error>>, <<>>, <<>>)
    ELSE LET c == constructAssignmentFilter(i.plan, i.constructErr) IN
        IF c.err THEN R(st, <<Error>>, <<>>, <<"construct">>)
        ELSE IF cl = Nil THEN Panic(st, <<>>, <<>>, <<"construct">>)
        ELSE IF i.outcome # "ok"
            THEN R(st, <<Error>>, <<Call(WithTimeout(i), "POST", "")>>, <<"construct", "post">>)
        ELSE LET assignmentFilter == Remote(i.respId, c.body.cfg)
                 plan1 == [i.plan EXCEPT !.id = assignmentFilter.id]
                 plan2 == mapRemoteStateToTerraform(plan1, assignmentFilter)
             IN R(plan2, <<>>, <<Call(WithTimeout(i), "POST", "")>>,
                  <<"construct", "post", "captureId", "map", "persist">>)

\* mutant: an expired timeout is classified like not-found
ReadCrud_TimeoutRemovesState(cl, st, i) ==
    IF i.getErr THEN R(st, <<Error>>, <<>>, <<>>)
    ELSE IF st.id = Null \/ ValueString(st.id) = "" THEN R(st, <<Warning>>, <<>>, <<>>)
    ELSE IF i.timeoutErr THEN R(st, <<Error>>, <<>>, <<>>)
    ELSE IF cl = Nil THEN Panic(st, <<>>, <<>>, <<>>)
    ELSE LET get == Call(WithTimeout(i), "GET", ValueString(st.id)) IN
        IF i.outcome # "ok" THEN
            IF IsNotFoundError(i.outcome) \/ i.outcome = "timeout"
                THEN R(Absent, <<Warning>>, <<get>>, <<"get", "remove">>)
            ELSE R(st, <<Error>>, <<get>>, <<"get">>)
        ELSE LET assignmentFilter == Remote(ValueString(st.id), i.respCfg)
             IN R(mapRemoteStateToTerraform(st, assignmentFilter), <<>>, <<get>>,
                  <<"get", "map", "persist">>)

\* mutant: the GET is issued whatever the stored id is
ReadCrud_SkipsIdCheck(cl, st, i) ==
    IF i.getErr THEN R(st, <<Error>>, <<>>, <<>>)
    ELSE IF i.timeoutErr THEN R(st, <<Error>>, <<>>, <<>>)
    ELSE IF cl = Nil THEN Panic(st, <<>>, <<>>, <<>>)
    ELSE LET get == Call(WithTimeout(i), "GET", ValueString(st.id)) IN
        IF i.outcome # "ok" THEN
            IF IsNotFoundError(i.outcome)
                THEN R(Absent, <<Warning>>, <<get>>, <<"get", "remove">>)
            ELSE R(st, <<Error>>, <<get>>, <<"get">>)
        ELSE LET assignmentFilter == Remote(ValueString(st.id), i.respCfg)
             IN R(mapRemoteStateToTerraform(st, assignmentFilter), <<>>, <<get>>,
                  <<"get", "map", "persist">>)

ReadCrud(cl, st, i) ==
    IF i.getErr THEN R(st, <<Error>>, <<>>, <<>>)
    ELSE IF st.id = Null \/ ValueString(st.id) = "" THEN R(st, <<Warning>>, <<>>, <<>>)
    ELSE IF i.timeoutErr THEN R(st, <<Error>>, <<>>, <<>>)
    ELSE IF cl = Nil THEN Panic(st, <<>>, <<>>, <<>>)
    ELSE LET get == Call(WithTimeout(i), "GET", ValueString(st.id)) IN
        IF i.outcome # "ok" THEN
            IF IsNotFoundError(i.outcome)
                THEN R(Absent, <<Warning>>, <<get>>, <<"get", "remove">>)
            ELSE R(st, <<Error>>, <<get>>, <<"get">>)
        ELSE LET assignmentFilter == Remote(ValueString(st.id), i.respCfg)
             IN R(mapRemoteStateToTerraform(st, assignmentFilter), <<>>, <<get>>,
                  <<"get", "map", "persist">>)

\* mutant: the PATCH is issued before the constructor's error is looked at
UpdateCrud_PatchBeforeCheck(cl, created, st, i) ==
    IF i.getErr THEN R(st, <<Error>>, <<>>, <<>>)
    ELSE IF i.timeoutErr THEN R(st, <<Error>>, <<>>, <<>>)
    ELSE LET c == constructAssignmentFilter(i.plan, i.constructErr)
             patch == Call(WithTimeout(i), "PATCH", ValueString(i.plan.id)) IN
        IF cl = Nil THEN Panic(st, <<>>, <<>>, <<"construct">>)
        ELSE IF c.err THEN R(st, <<Error>>, <<patch>>, <<"construct", "patch">>)
        ELSE IF i.outcome # "ok" THEN
            IF IsNotFoundError(i.outcome) /\ ~created
                THEN R(Absent, <<Warning>>, <<patch>>, <<"construct", "patch", "remove">>)
            ELSE R(st, <<Error>>, <<patch>>, <<"construct", "patch">>)
        ELSE R(i.plan, <<>>, <<patch>>, <<"construct", "patch", "persist">>)

\* mutant: the plan is persisted before the PATCH error is reported
UpdateCrud_PersistsOnError(cl, created, st, i) ==
    IF i.getErr THEN R(st, <<Error>>, <<>>, <<>>)
    ELSE IF i.timeoutErr THEN R(st, <<Error>>, <<>>, <<>>)
    ELSE LET c == constructAssignmentFilter(i.plan, i.constructErr) IN
        IF c.err THEN R(st, <<Error>>, <<>>, <<"construct">>)
        ELSE IF cl = Nil THEN Panic(st, <<>>, <<>>, <<"construct">>)
        ELSE LET patch == Call(WithTimeout(i), "PATCH", ValueString(i.plan.id)) IN
            IF i.outcome # "ok" THEN
                IF IsNotFoundError(i.outcome) /\ ~created
                    THEN R(Absent, <<Warning>>, <<patch>>, <<"construct", "patch", "remove">>)
                ELSE R(i.plan, <<Error>>, <<patch>>, <<"construct", "patch", "persist">>)
            ELSE R(i.plan, <<>>, <<patch>>, <<"construct", "patch", "persist">>)

\* mutant: the PATCH response is mapped into the model before it is persisted
UpdateCrud_MapsResponse(cl, created, st, i) ==
    IF i.getErr THEN R(st, <<Error>>, <<>>, <<>>)
    ELSE IF i.timeoutErr THEN R(st, <<Error>>, <<>>, <<>>)
    ELSE LET c == constructAssignmentFilter(i.plan, i.constructErr) IN
        IF c.err THEN R(st, <<Error>>, <<>>, <<"construct">>)
        ELSE IF cl = Nil THEN Panic(st, <<>>, <<>>, <<"construct">>)
        ELSE LET patch == Call(WithTimeout(i), "PATCH", ValueString(i.plan.id)) IN
            IF i.outcome # "ok" THEN
                IF IsNotFoundError(i.outcome) /\ ~created
                    THEN R(Absent, <<Warning>>, <<patch>>, <<"construct", "patch", "remove">>)
                ELSE R(st, <<Error>>, <<patch>>, <<"construct", "patch">>)
            ELSE R(mapRemoteStateToTerraform(i.plan, Remote(ValueString(i.plan.id), c.body.cfg)),
                   <<>>, <<patch>>, <<"construct", "patch", "map", "persist">>)

UpdateCrud(cl, created, st, i) ==
    IF i.getErr THEN R(st, <<Error>>, <<>>, <<>>)
    ELSE IF i.timeoutErr THEN R(st, <<Error>>, <<>>, <<>>)
    ELSE LET c == constructAssignmentFilter(i.plan, i.constructErr) IN
        IF c.err THEN R(st, <<Error>>, <<>>, <<"construct">>)
        ELSE IF cl = Nil THEN Panic(st, <<>>, <<>>, <<"construct">>)
        ELSE LET patch == Call(WithTimeout(i), "PATCH", ValueString(i.plan.id)) IN
            IF i.outcome # "ok" THEN
                IF IsNotFoundError(i.outcome) /\ ~created
                    THEN R(Absent, <<Warning>>, <<patch>>, <<"construct", "patch", "remove">>)
                ELSE R(st, <<Error>>, <<patch>>, <<"construct", "patch">>)
            ELSE R(i.plan, <<>>, <<patch>>, <<"construct", "patch", "persist">>)

\* mutant: the state entry is removed whatever the DELETE returned
DeleteCrud_RemovesOnError(cl, st, i) ==
    IF i.getErr THEN R(st, <<Error>>, <<>>, <<>>)
    ELSE IF i.timeoutErr THEN R(st, <<Error>>, <<>>, <<>>)
    ELSE IF cl = Nil THEN Panic(st, <<>>, <<>>, <<>>)
    ELSE LET delete == Call(WithTimeout(i), "DELETE", ValueString(st.id)) IN
        IF i.outcome # "ok" THEN R(Absent, <<Error>>, <<delete>>, <<"delete", "remove">>)
        ELSE R(Absent, <<>>, <<delete>>, <<"delete", "remove">>)

DeleteCrud(cl, st, i) ==
    IF i.getErr THEN R(st, <<Error>>, <<>>, <<>>)
    ELSE IF i.timeoutErr THEN R(st, <<Error>>, <<>>, <<>>)
    ELSE IF cl = Nil THEN Panic(st, <<>>, <<>>, <<>>)
    ELSE LET delete == Call(WithTimeout(i), "DELETE", ValueString(st.id)) IN
        IF i.outcome # "ok" THEN R(st, <<Error>>, <<delete>>, <<"delete">>)
        ELSE R(Absent, <<>>, <<delete>>, <<"delete", "remove">>)

----------------------------------------------------------------------------
(* The handlers of part_000 *)

CreatePart000(cl, st, i) ==
    IF i.getErr THEN R(st, <<Error>>, <<>>, <<>>)
    ELSE IF cl = Nil THEN R(st, <<Error>>, <<>>, <<>>)
    ELSE IF i.timeoutErr THEN R(st, <<Error>>, <<>>, <<>>)
    ELSE LET c == constructAssignmentFilter(i.plan, i.constructErr) IN
        IF c.err THEN R(st, <<Error>>, <<>>, <<"construct">>)
        ELSE IF i.outcome # "ok"
            THEN R(st, <<Error>>, <<Call(WithTimeout(i), "POST", "")>>, <<"construct", "post">>)
        ELSE LET assignmentFilter == Remote(i.respId, c.body.cfg)
                 data1 == [i.plan EXCEPT !.id = assignmentFilter.id]
             IN R(data1, <<>>, <<Call(WithTimeout(i), "POST", "")>>,
                  <<"construct", "post", "captureId", "persist">>)

\* mutant: a failed GET is issued a second time
ReadPart000_Retries(cl, st, i) ==
    IF i.getErr THEN R(st, <<Error>>, <<>>, <<>>)
    ELSE IF i.timeoutErr THEN R(st, <<Error>>, <<>>, <<>>)
    ELSE IF cl = Nil THEN Panic(st, <<>>, <<>>, <<>>)
    ELSE LET get == Call(WithTimeout(i), "GET", ValueString(st.id)) IN
        IF i.outcome # "ok" THEN R(st, <<Error>>, <<get, get>>, <<"get", "get">>)
        ELSE LET remoteResource == Remote(ValueString(st.id), i.respCfg)
             IN R(mapRemoteStateToTerraform(st, remoteResource), <<>>, <<get>>,
                  <<"get", "map", "persist">>)

ReadPart000(cl, st, i) ==
    IF i.getErr THEN R(st, <<Error>>, <<>>, <<>>)
    ELSE IF i.timeoutErr THEN R(st, <<Error>>, <<>>, <<>>)
    ELSE IF cl = Nil THEN Panic(st, <<>>, <<>>, <<>>)
    ELSE LET get == Call(WithTimeout(i), "GET", ValueString(st.id)) IN
        IF i.outcome # "ok" THEN R(st, <<Error>>, <<get>>, <<"get">>)
        ELSE LET remoteResource == Remote(ValueString(st.id), i.respCfg)
             IN R(mapRemoteStateToTerraform(st, remoteResource), <<>>, <<get>>,
                  <<"get", "map", "persist">>)

\* mutant: not-found on PATCH removes the state entry with a warning
UpdatePart000_RemovesOnNotFound(cl, st, i) ==
    IF i.getErr THEN R(st, <<Error>>, <<>>, <<>>)
    ELSE IF i.timeoutErr THEN R(st, <<Error>>, <<>>, <<>>)
    ELSE LET c == constructAssignmentFilter(i.plan, i.constructErr) IN
        IF c.err THEN R(st, <<Error>>, <<>>, <<"construct">>)
        ELSE IF cl = Nil THEN Panic(st, <<>>, <<>>, <<"construct">>)
        ELSE LET patch == Call(WithTimeout(i), "PATCH", ValueString(i.plan.id)) IN
            IF i.outcome # "ok" THEN
                IF IsNotFoundError(i.outcome)
                    THEN R(Absent, <<Warning>>, <<patch>>, <<"construct", "patch", "remove">>)
                ELSE R(st, <<Error>>, <<patch>>, <<"construct", "patch">>)
            ELSE R(i.plan, <<>>, <<patch>>, <<"construct", "patch", "persist">>)

UpdatePart000(cl, st, i) ==
    IF i.getErr THEN R(st, <<Error>>, <<>>, <<>>)
    ELSE IF i.timeoutErr THEN R(st, <<Error>>, <<>>, <<>>)
    ELSE LET c == constructAssignmentFilter(i.plan, i.constructErr) IN
        IF c.err THEN R(st, <<Error>>, <<>>, <<"construct">>)
        ELSE IF cl = Nil THEN Panic(st, <<>>, <<>>, <<"construct">>)
        ELSE LET patch == Call(WithTimeout(i), "PATCH", ValueString(i.plan.id)) IN
            IF i.outcome # "ok" THEN R(st, <<Error>>, <<patch>>, <<"construct", "patch">>)
            ELSE R(i.plan, <<>>, <<patch>>, <<"construct", "patch", "persist">>)

\* mutant: a successful DELETE leaves the state entry in place
DeletePart000_KeepsState(cl, st, i) ==
    IF i.getErr THEN R(st, <<Error>>, <<>>, <<>>)
    ELSE IF i.timeoutErr THEN R(st, <<Error>>, <<>>, <<>>)
    ELSE IF cl = Nil THEN Panic(st, <<>>, <<>>, <<>>)
    ELSE LET delete == Call(WithTimeout(i), "DELETE", ValueString(st.id)) IN
        IF i.outcome # "ok" THEN R(st, <<Error>>, <<delete>>, <<"delete">>)
        ELSE R(st, <<>>, <<delete>>, <<"delete">>)

DeletePart000(cl, st, i) ==
    IF i.getErr THEN R(st, <<Error>>, <<>>, <<>>)
    ELSE IF i.timeoutErr THEN R(st, <<Error>>, <<>>, <<>>)
    ELSE IF cl = Nil THEN Panic(st, <<>>, <<>>, <<>>)
    ELSE LET delete == Call(WithTimeout(i), "DELETE", ValueString(st.id)) IN
        IF i.outcome # "ok" THEN R(st, <<Error>>, <<delete>>, <<"delete">>)
        ELSE R(Absent, <<>>, <<delete>>, <<"delete", "remove">>)

----------------------------------------------------------------------------
(* The conditional access policy constructor, construct.go.                *)
(*                                                                         *)
(* The attribute model is a function from field paths to values: a pointer *)
(* field is Nil or Obj, a types.String / Bool / Int32 field is Null or a   *)
(* value (written as a string), a slice field is a sequence.  A Graph SDK  *)
(* model is a function whose domain is the set of properties a setter was  *)
(* called for (Set<Property>), a property being named as its setter is.    *)

Obj == "<obj>"

ObjectPaths ==
    {<<"Conditions">>, <<"GrantControls">>, <<"SessionControls">>,
     <<"Conditions", "Applications">>,
     <<"Conditions", "ClientApplications">>,
     <<"Conditions", "Users">>,
     <<"Conditions", "Users", "IncludeGuestsOrExternalUsers">>,
     <<"Conditions", "Users", "ExcludeGuestsOrExternalUsers">>,
     <<"Conditions", "Users", "IncludeGuestsOrExternalUsers", "ExternalTenants">>,
     <<"Conditions", "Users", "ExcludeGuestsOrExternalUsers", "ExternalTenants">>,
     <<"GrantControls", "AuthenticationStrength">>,
     <<"SessionControls", "ApplicationEnforcedRestrictions">>,
     <<"SessionControls", "ContinuousAccessEvaluation">>,
     <<"SessionControls", "PersistentBrowser">>,
     <<"SessionControls", "SignInFrequency">>,
     <<"SessionControls", "SecureSignInSession">>}

\* pointer fields whose constructors (constructDevices, constructDeviceStates,
\* constructLocations, constructPlatforms, constructAuthenticationFlows) the
\* source only announces: they stay nil in every model
UnbuiltPaths ==
    {<<"Conditions", "AuthenticationFlows">>, <<"Conditions", "Devices">>,
     <<"Conditions", "DeviceStates">>, <<"Conditions", "Locations">>,
     <<"Conditions", "Platforms">>}

\* optional types.String fields copied as strings
StringPaths ==
    {<<"Description">>,
     <<"GrantControls", "AuthenticationStrength", "DisplayName">>,
     <<"GrantControls", "AuthenticationStrength", "Description">>,
     <<"GrantControls", "AuthenticationStrength", "PolicyType">>,
     <<"GrantControls", "AuthenticationStrength", "RequirementsSatisfied">>}

\* types.String fields parsed as enumerations
EnumPaths ==
    {<<"State">>,
     <<"Conditions", "InsiderRiskLevels">>,
     <<"Conditions", "Users", "IncludeGuestsOrExternalUsers", "GuestOrExternalUserTypes">>,
     <<"Conditions", "Users", "ExcludeGuestsOrExternalUsers", "GuestOrExternalUserTypes">>,
     <<"GrantControls", "Operator">>,
     <<"SessionControls", "ContinuousAccessEvaluation", "Mode">>,
     <<"SessionControls", "PersistentBrowser", "Mode">>,
     <<"SessionControls", "SignInFrequency", "Type">>,
     <<"SessionControls", "SignInFrequency", "FrequencyInterval">>,
     <<"SessionControls", "SignInFrequency", "AuthenticationType">>}

BoolPaths ==
    {<<"SessionControls", "ApplicationEnforcedRestrictions", "IsEnabled">>,
     <<"SessionControls", "PersistentBrowser", "IsEnabled">>,
     <<"SessionControls", "SignInFrequency", "IsEnabled">>,
     <<"SessionControls", "SecureSignInSession", "IsEnabled">>,
     <<"SessionControls", "DisableResilienceDefaults">>}

IntPaths == {<<"SessionControls", "SignInFrequency", "Value">>}

\* []types.String fields copied as strings
StringListPaths ==
    {<<"Conditions", "Applications", "IncludeApplications">>,
     <<"Conditions", "Applications", "ExcludeApplications">>,
     <<"Conditions", "Applications", "IncludeUserActions">>,
     <<"Conditions", "Users", "IncludeUsers">>,
     <<"Conditions", "Users", "ExcludeUsers">>,
     <<"Conditions", "Users", "IncludeGroups">>,
     <<"Conditions", "Users", "ExcludeGroups">>,
     <<"Conditions", "Users", "IncludeRoles">>,
     <<"Conditions", "Users", "ExcludeRoles">>,
     <<"Conditions", "Users", "IncludeGuestsOrExternalUsers", "ExternalTenants", "TenantIds">>,
     <<"Conditions", "Users", "ExcludeGuestsOrExternalUsers", "ExternalTenants", "TenantIds">>,
     <<"Conditions", "ClientApplications", "IncludeServicePrincipals">>,
     <<"Conditions", "ClientApplications", "ExcludeServicePrincipals">>,
     <<"GrantControls", "CustomAuthenticationFactors">>,
     <<"GrantControls", "TermsOfUse">>,
     <<"GrantControls", "AuthenticationStrength", "AllowedCombinations">>}

\* []types.String fields parsed element by element as enumerations
EnumListPaths ==
    {<<"Conditions", "ClientAppTypes">>,
     <<"Conditions", "ServicePrincipalRiskLevels">>,
     <<"Conditions", "SignInRiskLevels">>,
     <<"Conditions", "UserRiskLevels">>,
     <<"GrantControls", "BuiltInControls">>}

ScalarPaths == StringPaths \cup EnumPaths \cup BoolPaths \cup IntPaths
ListPaths == StringListPaths \cup EnumListPaths
Paths == {<<"DisplayName">>} \cup ObjectPaths \cup UnbuiltPaths \cup ScalarPaths \cup ListPaths

\* the model with only the required display name set
BaseModel ==
    [q \in Paths |->
        IF q = <<"DisplayName">> THEN "n"
        ELSE IF q \in ObjectPaths \cup UnbuiltPaths THEN Nil
        ELSE IF q \in ListPaths THEN <<>>
        ELSE Null]

\* data.<p>.<f>
G(d, p, f) == d[Append(p, f)]

ValueBool(b) == IF b \in {Null, Unknown} THEN "false" ELSE b
ValueInt32(n) == IF n = Null THEN "0" ELSE n

----------------------------------------------------------------------------
(* Graph SDK models and enumerations *)

NewModel == [x \in {} |-> Nil]
SetProp(m, k, v) == [x \in DOMAIN m \cup {k} |-> IF x = k THEN v ELSE m[x]]

\* the enumerators of each enumeration, in declaration order
Enumerators(type) ==
    CASE type = "ConditionalAccessPolicyState" ->
            <<"enabled", "disabled", "enabledForReportingButNotEnforced">>
      [] type = "ConditionalAccessClientApp" ->
            <<"all", "browser", "mobileAppsAndDesktopClients", "exchangeActiveSync",
              "easSupported", "other", "unknownFutureValue">>
      [] type = "RiskLevel" ->
            <<"low", "medium", "high", "hidden", "none", "unknownFutureValue">>
      [] type = "ConditionalAccessInsiderRiskLevels" ->
            <<"minor", "moderate", "elevated", "unknownFutureValue">>
      [] type = "ConditionalAccessGuestOrExternalUserTypes" ->
            <<"none", "internalGuest", "b2bCollaborationGuest", "b2bCollaborationMember",
              "b2bDirectConnectUser", "otherExternalUser", "serviceProvider",
              "unknownFutureValue">>
      [] type = "ConditionalAccessGrantControlOperator" -> <<"AND", "OR">>
      [] type = "ConditionalAccessGrantControl" ->
            <<"block", "mfa", "compliantDevice", "domainJoinedDevice",
              "approvedApplication", "compliantApplication", "passwordChange",
              "unknownFutureValue">>
      [] type = "ContinuousAccessEvaluationMode" ->
            <<"strictEnforcement", "disabled", "unknownFutureValue", "strictLocation">>
      [] type = "PersistentBrowserSessionMode" -> <<"always", "never">>
      [] type = "SigninFrequencyType" -> <<"days", "hours">>
      [] type = "SignInFrequencyInterval" ->
            <<"timeBased", "everyTime", "unknownFutureValue">>
      [] type = "SignInFrequencyAuthenticationType" ->
            <<"primaryAndSecondaryAuthentication", "secondaryAuthentication",
              "unknownFutureValue">>

\* an enumerator of a Graph enumeration
Enum(type, name) == [enum |-> type, name |-> name]
NilEnum == [enum |-> Nil, name |-> Nil]

\* How models.Parse<type>(v) answers a string that is no enumerator depends
\* on the generation of the Graph SDK the provider is built with: it returns
\* an error that quotes the string ("error"), or it returns (nil, nil)
\* ("nil").
SdkModes == {"error", "nil"}

Parse(type, v, sdk) ==
    IF \E k \in 1..Len(Enumerators(type)) : Enumerators(type)[k] = v
        THEN [err |-> FALSE, ptr |-> Enum(type, v), msg |-> <<>>]
    ELSE IF sdk = "error"
        THEN [err |-> TRUE, ptr |-> NilEnum, msg |-> <<"Unknown " \o type \o " value", v>>]
    ELSE [err |-> FALSE, ptr |-> NilEnum, msg |-> <<>>]

----------------------------------------------------------------------------
(* Results of the construct functions: (model, nil), (nil, error) or a     *)
(* nil-pointer panic.  An error is the sequence of the parts of its text,  *)
(* outermost prefix first.                                                 *)

Ok(m) == [kind |-> "ok", val |-> m, msg |-> <<>>]
Err(parts) == [kind |-> "err", val |-> NewModel, msg |-> parts]
Pnc == [kind |-> "panic", val |-> NewModel, msg |-> <<>>]

\* fmt.Errorf("<prefix>: %v", err)
Wrap(prefix, r) == IF r.kind = "panic" THEN r ELSE Err(<<prefix>> \o r.msg)

NilModel == [x \in {Nil} |-> Nil]

\* make([]string, n)
MakeStrings(n) == [k \in 1..n |-> ""]
\* make([]T, n) of an enumeration T: n times its first enumerator
MakeEnums(type, n) == [k \in 1..n |-> Enum(type, Enumerators(type)[1])]

RECURSIVE FillStrings_Reversed(_, _, _)
\* mutant: the loop writes element i to the mirrored index
FillStrings_Reversed(src, dst, i) ==
    IF i > Len(src) THEN dst
    ELSE FillStrings_Reversed(src, [dst EXCEPT ![Len(src) + 1 - i] = ValueString(src[i])], i + 1)

RECURSIVE FillStrings(_, _, _)
\* for i, x := range src { dst[i] = x.ValueString() }
FillStrings(src, dst, i) ==
    IF i > Len(src) THEN dst
    ELSE FillStrings(src, [dst EXCEPT ![i] = ValueString(src[i])], i + 1)

RECURSIVE FillEnums(_, _, _, _, _)
\* for i, x := range src { e, err := Parse(x.ValueString()); if err != nil
\* { return nil, err }; dst[i] = *e }
FillEnums(type, src, dst, i, sdk) ==
    IF i > Len(src) THEN Ok(dst)
    ELSE LET r == Parse(type, ValueString(src[i]), sdk) IN
        IF r.err THEN Err(r.msg)
        ELSE IF r.ptr = NilEnum THEN Pnc
        ELSE FillEnums(type, src, [dst EXCEPT ![i] = r.ptr], i + 1, sdk)

\* if !v.IsNull() { x := v.ValueString(); m.Set<key>(&x) }
StepString(acc, v, key) ==
    IF acc.kind # "ok" \/ v = Null THEN acc
    ELSE Ok(SetProp(acc.val, key, ValueString(v)))

\* if !v.IsNull() { e, err := Parse(v.ValueString()); if err != nil
\* { return nil, fmt.Errorf(prefix, err) }; m.Set<key>(e) }
StepEnum(acc, v, type, prefix, key, sdk) ==
    IF acc.kind # "ok" \/ v = Null THEN acc
    ELSE LET r == Parse(type, ValueString(v), sdk) IN
        IF r.err THEN Err(<<prefix>> \o r.msg)
        ELSE Ok(SetProp(acc.val, key, r.ptr))

\* mutant: the setter is called whatever the length of the source
StepStrings_SendsEmpty(acc, src, key) ==
    IF acc.kind # "ok" THEN acc
    ELSE Ok(SetProp(acc.val, key, FillStrings(src, MakeStrings(Len(src)), 1)))

\* if len(src) > 0 { ...copy...; m.Set<key>(dst) }
StepStrings(acc, src, key) ==
    IF acc.kind # "ok" \/ ~(Len(src) > 0) THEN acc
    ELSE Ok(SetProp(acc.val, key, FillStrings(src, MakeStrings(Len(src)), 1)))

\* if len(src) > 0 { ...parse each...; m.Set<key>(dst) }
StepEnums(acc, src, type, prefix, key, sdk) ==
    IF acc.kind # "ok" \/ ~(Len(src) > 0) THEN acc
    ELSE LET r == FillEnums(type, src, MakeEnums(type, Len(src)), 1, sdk) IN
        IF r.kind = "err" THEN Err(<<prefix>> \o r.msg)
        ELSE IF r.kind = "panic" THEN Pnc
        ELSE Ok(SetProp(acc.val, key, r.val))

\* if ptr != nil { x, err := construct...(ptr); if err != nil
\* { return nil, fmt.Errorf(prefix, err) }; m.Set<key>(x) }
StepObject(acc, ptr, r, prefix, key) ==
    IF acc.kind # "ok" \/ ptr = Nil THEN acc
    ELSE IF r.kind # "ok" THEN Wrap(prefix, r)
    ELSE Ok(SetProp(acc.val, key, r.val))

\* x := b.ValueBool(); m.Set<key>(&x)      (no null test)
StepBoolAlways(acc, b, key) ==
    IF acc.kind # "ok" THEN acc
    ELSE Ok(SetProp(acc.val, key, ValueBool(b)))

----------------------------------------------------------------------------
(* The construct functions, bottom up *)

constructApplications(d, p) ==
    IF d[p] = Nil THEN Ok(NilModel)
    ELSE LET s1 == StepStrings(Ok(NewModel), G(d, p, "IncludeApplications"), "IncludeApplications")
             s2 == StepStrings(s1, G(d, p, "ExcludeApplications"), "ExcludeApplications")
             s3 == StepStrings(s2, G(d, p, "IncludeUserActions"), "IncludeUserActions")
         IN s3

constructConditionalAccessExternalTenants(d, p) ==
    IF d[p] = Nil THEN Ok(NilModel)
    ELSE StepStrings(Ok(NewModel), G(d, p, "TenantIds"), "TenantIds")

constructGuestsOrExternalUsers(d, p, sdk) ==
    IF d[p] = Nil THEN Ok(NilModel)
    ELSE LET s1 == StepEnum(Ok(NewModel), G(d, p, "GuestOrExternalUserTypes"),
                            "ConditionalAccessGuestOrExternalUserTypes",
                            "error parsing guest or external user types",
                            "GuestOrExternalUserTypes", sdk)
             s2 == StepObject(s1, G(d, p, "ExternalTenants"),
                              constructConditionalAccessExternalTenants(d, Append(p, "ExternalTenants")),
                              "error constructing external tenants", "ExternalTenants")
         IN s2

constructUsers(d, p, sdk) ==
    IF d[p] = Nil THEN Ok(NilModel)
    ELSE LET s1 == StepStrings(Ok(NewModel), G(d, p, "IncludeUsers"), "IncludeUsers")
             s2 == StepStrings(s1, G(d, p, "ExcludeUsers"), "ExcludeUsers")
             s3 == StepStrings(s2, G(d, p, "IncludeGroups"), "IncludeGroups")
             s4 == StepStrings(s3, G(d, p, "ExcludeGroups"), "ExcludeGroups")
             s5 == StepStrings(s4, G(d, p, "IncludeRoles"), "IncludeRoles")
             s6 == StepStrings(s5, G(d, p, "ExcludeRoles"), "ExcludeRoles")
             s7 == StepObject(s6, G(d, p, "IncludeGuestsOrExternalUsers"),
                              constructGuestsOrExternalUsers(d, Append(p, "IncludeGuestsOrExternalUsers"), sdk),
                              "error constructing include guests or external users",
                              "IncludeGuestsOrExternalUsers")
             s8 == StepObject(s7, G(d, p, "ExcludeGuestsOrExternalUsers"),
                              constructGuestsOrExternalUsers(d, Append(p, "ExcludeGuestsOrExternalUsers"), sdk),
                              "error constructing exclude guests or external users",
                              "ExcludeGuestsOrExternalUsers")
         IN s8

constructClientApplications(d, p) ==
    IF d[p] = Nil THEN Ok(NilModel)
    ELSE LET s1 == StepStrings(Ok(NewModel), G(d, p, "IncludeServicePrincipals"), "IncludeServicePrincipals")
             s2 == StepStrings(s1, G(d, p, "ExcludeServicePrincipals"), "ExcludeServicePrincipals")
         IN s2

\* The steps for AuthenticationFlows, Devices, DeviceStates, Locations and
\* Platforms (lines 98-105, 129-145, 156-172) call functions the source does
\* not define; those pointers are nil in every model, so the steps do nothing.
constructConditions(d, p, sdk) ==
    IF d[p] = Nil THEN Ok(NilModel)
    ELSE LET s1 == StepObject(Ok(NewModel), G(d, p, "Applications"),
                              constructApplications(d, Append(p, "Applications")),
                              "error constructing applications", "Applications")
             s2 == StepObject(s1, G(d, p, "ClientApplications"),
                              constructClientApplications(d, Append(p, "ClientApplications")),
                              "error constructing client applications", "ClientApplications")
             s3 == StepEnums(s2, G(d, p, "ClientAppTypes"), "ConditionalAccessClientApp",
                             "error parsing client app type", "ClientAppTypes", sdk)
             s4 == StepEnum(s3, G(d, p, "InsiderRiskLevels"), "ConditionalAccessInsiderRiskLevels",
                            "error parsing insider risk level", "InsiderRiskLevels", sdk)
             s5 == StepEnums(s4, G(d, p, "ServicePrincipalRiskLevels"), "RiskLevel",
                             "error parsing service principal risk level",
                             "ServicePrincipalRiskLevels", sdk)
             s6 == StepEnums(s5, G(d, p, "SignInRiskLevels"), "RiskLevel",
                             "error parsing sign-in risk level", "SignInRiskLevels", sdk)
             s7 == StepEnums(s6, G(d, p, "UserRiskLevels"), "RiskLevel",
                             "error parsing user risk level", "UserRiskLevels", sdk)
             s8 == StepObject(s7, G(d, p, "Users"),
                              constructUsers(d, Append(p, "Users"), sdk),
                              "error constructing users", "Users")
         IN s8

constructAuthenticationStrength(d, p) ==
    IF d[p] = Nil THEN Ok(NilModel)
    ELSE LET s1 == StepString(Ok(NewModel), G(d, p, "DisplayName"), "DisplayName")
             s2 == StepString(s1, G(d, p, "Description"), "Description")
             s3 == StepString(s2, G(d, p, "PolicyType"), "PolicyType")
             s4 == StepString(s3, G(d, p, "RequirementsSatisfied"), "RequirementsSatisfied")
             s5 == StepStrings(s4, G(d, p, "AllowedCombinations"), "AllowedCombinations")
         IN s5

constructGrantControls(d, p, sdk) ==
    IF d[p] = Nil THEN Ok(NilModel)
    ELSE LET s1 == StepEnum(Ok(NewModel), G(d, p, "Operator"), "ConditionalAccessGrantControlOperator",
                            "error parsing grant control operator", "Operator", sdk)
             s2 == StepEnums(s1, G(d, p, "BuiltInControls"), "ConditionalAccessGrantControl",
                             "error parsing built-in control", "BuiltInControls", sdk)
             s3 == StepStrings(s2, G(d, p, "CustomAuthenticationFactors"), "CustomAuthenticationFactors")
             s4 == StepStrings(s3, G(d, p, "TermsOfUse"), "TermsOfUse")
             s5 == StepObject(s4, G(d, p, "AuthenticationStrength"),
                              constructAuthenticationStrength(d, Append(p, "AuthenticationStrength")),
                              "error constructing authentication strength", "AuthenticationStrength")
         IN s5

\* if data.ApplicationEnforcedRestrictions != nil { ... }   (lines 511-516, and again 518-523)
SessionApplicationEnforcedRestrictions(acc, d, p) ==
    LET q == Append(p, "ApplicationEnforcedRestrictions") IN
    StepObject(acc, d[q],
               StepBoolAlways(Ok(NewModel), G(d, q, "IsEnabled"), "IsEnabled"),
               "", "ApplicationEnforcedRestrictions")

\* if data.ContinuousAccessEvaluation != nil { ... }        (lines 525-537)
SessionContinuousAccessEvaluation(acc, d, p, sdk) ==
    LET q == Append(p, "ContinuousAccessEvaluation") IN
    IF acc.kind # "ok" \/ d[q] = Nil THEN acc
    ELSE LET s1 == StepEnum(Ok(NewModel), G(d, q, "Mode"), "ContinuousAccessEvaluationMode",
                            "error parsing continuous access evaluation mode", "Mode", sdk)
         IN IF s1.kind # "ok" THEN s1
            ELSE Ok(SetProp(acc.val, "ContinuousAccessEvaluation", s1.val))

\* if data.PersistentBrowser != nil { ... }                 (lines 539-555)
SessionPersistentBrowser(acc, d, p, sdk) ==
    LET q == Append(p, "PersistentBrowser") IN
    IF acc.kind # "ok" \/ d[q] = Nil THEN acc
    ELSE LET s1 == StepBoolAlways(Ok(NewModel), G(d, q, "IsEnabled"), "IsEnabled")
             s2 == StepEnum(s1, G(d, q, "Mode"), "PersistentBrowserSessionMode",
                            "error parsing persistent browser session mode", "Mode", sdk)
         IN IF s2.kind # "ok" THEN s2
            ELSE Ok(SetProp(acc.val, "PersistentBrowser", s2.val))

\* if data.SignInFrequency != nil { ... }                   (lines 557-594)
SessionSignInFrequency(acc, d, p, sdk) ==
    LET q == Append(p, "SignInFrequency") IN
    IF acc.kind # "ok" \/ d[q] = Nil THEN acc
    ELSE LET s1 == StepBoolAlways(Ok(NewModel), G(d, q, "IsEnabled"), "IsEnabled")
             s2 == StepEnum(s1, G(d, q, "Type"), "SigninFrequencyType",
                            "error parsing sign-in frequency type", "TypeEscaped", sdk)
             s3 == IF s2.kind # "ok" \/ G(d, q, "Value") = Null THEN s2
                   ELSE Ok(SetProp(s2.val, "Value", ValueInt32(G(d, q, "Value"))))
             s4 == StepEnum(s3, G(d, q, "FrequencyInterval"), "SignInFrequencyInterval",
                            "error parsing sign-in frequency interval", "FrequencyInterval", sdk)
             s5 == StepEnum(s4, G(d, q, "AuthenticationType"), "SignInFrequencyAuthenticationType",
                            "error parsing sign-in frequency authentication type",
                            "AuthenticationType", sdk)
         IN IF s5.kind # "ok" THEN s5
            ELSE Ok(SetProp(acc.val, "SignInFrequency", s5.val))

\* if data.SecureSignInSession != nil { ... }               (lines 596-600)
SessionSecureSignInSession(acc, d, p) ==
    LET q == Append(p, "SecureSignInSession") IN
    StepObject(acc, d[q],
               StepBoolAlways(Ok(NewModel), G(d, q, "IsEnabled"), "IsEnabled"),
               "", "SecureSignInSession")

constructSessionControls(d, p, sdk) ==
    IF d[p] = Nil THEN Ok(NilModel)
    ELSE LET s1 == SessionApplicationEnforcedRestrictions(Ok(NewModel), d, p)
             s2 == SessionApplicationEnforcedRestrictions(s1, d, p)
             s3 == SessionContinuousAccessEvaluation(s2, d, p, sdk)
             s4 == SessionPersistentBrowser(s3, d, p, sdk)
             s5 == SessionSignInFrequency(s4, d, p, sdk)
             s6 == SessionSecureSignInSession(s5, d, p)
             s7 == StepBoolAlways(s6, G(d, p, "DisableResilienceDefaults"),
                                  "DisableResilienceDefaults")
         IN s7

\* lines 25-38: the state is set only when the parser returned an enumerator
\* (the type assertion of line 32 holds for everything the parser returns)
PolicyState(acc, v, sdk) ==
    IF acc.kind # "ok" \/ v = Null THEN acc
    ELSE LET r == Parse("ConditionalAccessPolicyState", ValueString(v), sdk) IN
        IF r.err THEN Err(<<"invalid state">> \o r.msg)
        ELSE IF r.ptr # NilEnum THEN Ok(SetProp(acc.val, "State", r.ptr))
        ELSE acc

\* constructResource of package graphBetaConditionalAccessPolicy.
\* marshalErr: json.MarshalIndent of the request body returns an error.
constructResource(d, sdk, marshalErr) ==
    LET s0 == Ok(SetProp(NewModel, "DisplayName", ValueString(d[<<"DisplayName">>])))
        s1 == StepString(s0, d[<<"Description">>], "Description")
        s2 == PolicyState(s1, d[<<"State">>], sdk)
        s3 == StepObject(s2, d[<<"Conditions">>],
                         constructConditions(d, <<"Conditions">>, sdk),
                         "error constructing conditions", "Conditions")
        s4 == StepObject(s3, d[<<"GrantControls">>],
                         constructGrantControls(d, <<"GrantControls">>, sdk),
                         "error constructing grant controls", "GrantControls")
        s5 == StepObject(s4, d[<<"SessionControls">>],
                         constructSessionControls(d, <<"SessionControls">>, sdk),
                         "error constructing session controls", "SessionControls")
    IN IF s5.kind # "ok" THEN s5
       ELSE IF marshalErr THEN Err(<<"error marshalling request body to JSON">>)
       ELSE s5

----------------------------------------------------------------------------
(* The resource as Terraform drives it.  The framework configures the      *)
(* resource before it calls a handler and calls none when Configure        *)
(* reported an error; it calls Create for an instance without state and    *)
(* Read, Update and Delete for an instance with state.                     *)

Handlers == {"Create", "Read", "Update", "Delete"}

\* the handler method the framework calls for an operation, as a function of
\* the resource struct (r.client, r.isCreate), the stored state and the inputs
Handle(name, v, cl, created, st, i) ==
    CASE name = "Create" ->
            IF v = "crud" THEN CreateCrud(cl, st, i) ELSE CreatePart000(cl, st, i)
      [] name = "Read" ->
            IF v = "crud" THEN ReadCrud(cl, st, i) ELSE ReadPart000(cl, st, i)
      [] name = "Update" ->
            IF v = "crud" THEN UpdateCrud(cl, created, st, i) ELSE UpdatePart000(cl, st, i)
      [] name = "Delete" ->
            IF v = "crud" THEN DeleteCrud(cl, st, i) ELSE DeletePart000(cl, st, i)

Finish(name, i, r) ==
    /\ op' = name
    /\ in' = i
    /\ pre' = state
    /\ state' = r.state
    /\ diags' = r.diags
    /\ calls' = r.calls
    /\ trace' = r.trace
    /\ panicked' = r.panicked
    /\ UNCHANGED <<variant, isCreate, client, ready>>
    /\ UNCHANGED caVars
    /\ UNCHANGED prov
    /\ UNCHANGED schemaVars
    /\ UNCHANGED inst

Configure ==
    \E i \in ConfigureInputs :
        LET c == ResourceConfigure(client, i.providerData) IN
        /\ client' = c.client
        /\ ready' = ~HasError(c.diags)
        /\ op' = "Configure"
        /\ in' = i
        /\ pre' = state
        /\ diags' = c.diags
        /\ calls' = <<>>
        /\ trace' = <<>>
        /\ panicked' = FALSE
        /\ UNCHANGED <<variant, isCreate, state>>
        /\ UNCHANGED caVars
    /\ UNCHANGED prov
    /\ UNCHANGED schemaVars
    /\ UNCHANGED inst

Create ==
    /\ ready
    /\ state = Absent
    /\ \E i \in CreateInputs :
        Finish("Create", i, Handle("Create", variant, client, isCreate, state, i))

Read ==
    /\ ready
    /\ state # Absent
    /\ \E i \in ReadInputs :
        Finish("Read", i, Handle("Read", variant, client, isCreate, state, i))

Update ==
    /\ ready
    /\ state # Absent
    /\ \E i \in UpdateInputs(state) :
        Finish("Update", i, Handle("Update", variant, client, isCreate, state, i))

Delete ==
    /\ ready
    /\ state # Absent
    /\ \E i \in DeleteInputs :
        Finish("Delete", i, Handle("Delete", variant, client, isCreate, state, i))

\* two distinct resource instances of the same resource type
Instances == {"a", "b"}
\* the identifier the Graph API gives the remote resource of an instance
InstanceId(x) == IF x = "a" THEN "id1" ELSE "id2"

\* the fields of the resource struct the handlers read
Receiver == [client |-> client, isCreate |-> isCreate]

NoResult == R(Absent, <<>>, <<>>, <<>>)

\* pc: where the invocation on the instance is ("idle": none running;
\* "started": request read; "called": Graph call in flight); r0: the resource
\* struct when it started; cl: r.client as read for the call; out: what the
\* last invocation left
IdleInstance ==
    [pc |-> "idle", op |-> "none", in |-> NoIn, pre |-> Absent, state |-> Absent,
     r0 |-> [client |-> Nil, isCreate |-> FALSE], cl |-> Nil, out |-> NoResult]

ConcIdle == inst = [x \in Instances |-> IdleInstance]

\* M365Provider as New makes it (clients: &client.GraphClients{}), with the
\* response of a Configure that has not run
ProviderSteps ==
    <<"config", "cloudConstants", "clientOptions", "credential", "authProvider",
      "httpClient", "stableAdapter", "betaAdapter">>

NoFailure == [s \in {ProviderSteps[k] : k \in 1..Len(ProviderSteps)} |-> FALSE]

ProviderNew ==
    prov = [configured |-> FALSE, fails |-> NoFailure, clients |-> "empty",
            resourceData |-> Nil, dataSourceData |-> Nil, diags |-> <<>>, steps |-> <<>>]

\* CloudPcProvisioningPolicyResource as NewCloudPcProvisioningPolicyResource
\* makes it, with the response of a Configure that has not run
CloudPcNew ==
    cpc = [run |-> FALSE, providerData |-> Nil, before |-> Nil, client |-> Nil, diags |-> <<>>]

\* a string value of the configuration, by its characters: runs of
\* characters of one class ("hex": 0-9 a-f A-F, "-", "other")
StringOf(runs) == [kind |-> "value", runs |-> runs]
NullString == [kind |-> "null", runs |-> <<>>]
UnknownString == [kind |-> "unknown", runs |-> <<>>]

NotValidated ==
    valid = [attr |-> "none", value |-> NullString, useProxy |-> Null, proxyURL |-> Null,
             useProxyErr |-> FALSE, proxyURLErr |-> FALSE, diags |-> <<>>]

NotRun == [run |-> FALSE, sdk |-> "error", marshalErr |-> FALSE, out |-> Ok(NewModel)]

CAIdle ==
    /\ data = BaseModel
    /\ nSet = 0
    /\ result = NotRun

Init ==
    /\ variant \in Variants
    /\ isCreate \in (IF variant = "crud" THEN BOOLEAN ELSE {FALSE})
    /\ client = Nil
    /\ ready = FALSE
    /\ state = Absent
    /\ op = "none"
    /\ in = NoIn
    /\ pre = Absent
    /\ diags = <<>>
    /\ calls = <<>>
    /\ trace = <<>>
    /\ panicked = FALSE
    /\ CAIdle
    /\ ConcIdle
    /\ ProviderNew
    /\ CloudPcNew
    /\ NotValidated

Next == Configure \/ Create \/ Read \/ Update \/ Delete

Spec == Init /\ [][Next]_vars
----------------------------------------------------------------------------
(* Specification SpecDirect: the handlers called on the resource struct    *)
(* whether or not a Configure has succeeded on it, as a caller that does   *)
(* not follow the framework's order does (the case the r.client == nil     *)
(* test of part_000 Create is written for).  Create is called for an       *)
(* instance without state, the other handlers for one with state.          *)

HandlerInputs(name, st) ==
    CASE name = "Create" -> CreateInputs
      [] name = "Read" -> ReadInputs
      [] name = "Update" -> UpdateInputs(st)
      [] name = "Delete" -> DeleteInputs

Dispatch(name) ==
    /\ name = "Create" <=> state = Absent
    /\ \E i \in HandlerInputs(name, state) :
        Finish(name, i, Handle(name, variant, client, isCreate, state, i))

NextDirect ==
    \/ Configure
    \/ \E name \in Handlers : Dispatch(name)

SpecDirect == Init /\ [][NextDirect]_vars

----------------------------------------------------------------------------
(* Specification SpecConc: invocations on two resource instances run       *)
(* concurrently on one resource struct.  An invocation takes three steps:  *)
(* HandlerStart reads the request, HandlerCall runs up to the Graph call   *)
(* (reading r.client), HandlerReturn handles the response (Update of       *)
(* crud.go reads r.isCreate there).  The steps of the two invocations and  *)
(* Configure interleave freely.                                            *)

\* mutant: Delete drops the client handle when its call has returned
ReceiverAfter_DeleteClearsClient(name, step, r) ==
    IF name = "Delete" /\ step = "return" THEN [r EXCEPT !.client = Nil] ELSE r

\* mutant: Create raises isCreate while its call is in flight
ReceiverAfter_IsCreateDuringCreate(name, step, r) ==
    IF name = "Create" /\ step = "call" THEN [r EXCEPT !.isCreate = TRUE]
    ELSE IF name = "Create" /\ step = "return" THEN [r EXCEPT !.isCreate = FALSE]
    ELSE r

\* The resource struct after a step of a handler: the handlers assign no
\* field of their receiver.
ReceiverAfter(name, step, r) == r

\* the requests tried: read without error, the response is chosen when the
\* call returns
ConcInputs(name, st) ==
    {i \in (CASE name = "Create" -> CreateInputs
              [] name = "Read" -> ReadInputs
              [] name = "Update" -> UpdateInputs(st)
              [] name = "Delete" -> DeleteInputs) :
        /\ ~i.getErr /\ ~i.timeoutErr /\ i.timeout = Null
        /\ i.outcome = "ok" /\ i.respId = "id1" /\ i.respCfg = "cfgA"
        /\ i.plan.cfg \in {"cfgA", NoPlan.cfg}
        /\ name = "Update" => i.plan.id = st.id}

HandlerStep(x, name, step, new) ==
    /\ inst' = [inst EXCEPT ![x] = new]
    /\ client' = ReceiverAfter(name, step, Receiver).client
    /\ isCreate' = ReceiverAfter(name, step, Receiver).isCreate
    /\ op' = "Handler"
    /\ UNCHANGED <<variant, ready, state, in, pre, diags, calls, trace, panicked>>
    /\ UNCHANGED caVars
    /\ UNCHANGED prov
    /\ UNCHANGED schemaVars

HandlerStart(x) ==
    /\ ready
    /\ inst[x].pc = "idle"
    /\ \E name \in Handlers :
        /\ name = "Create" <=> inst[x].state = Absent
        /\ \E i \in ConcInputs(name, inst[x].state) :
            HandlerStep(x, name, "start",
                [pc |-> "started", op |-> name, in |-> i, pre |-> inst[x].state,
                 state |-> inst[x].state, r0 |-> Receiver, cl |-> Nil, out |-> NoResult])

HandlerCall(x) ==
    /\ inst[x].pc = "started"
    /\ LET s == inst[x]
           res == Handle(s.op, variant, client, isCreate, s.pre, s.in)
       IN HandlerStep(x, s.op, "call",
            IF res.calls = <<>>
                THEN [s EXCEPT !.pc = "idle", !.out = res, !.state = res.state]
                ELSE [s EXCEPT !.pc = "called", !.cl = client])

HandlerReturn(x) ==
    /\ inst[x].pc = "called"
    /\ \E o \in Outcomes :
        LET s == inst[x]
            i == [s.in EXCEPT !.outcome = o, !.respId = InstanceId(x)]
            res == Handle(s.op, variant, s.cl, isCreate, s.pre, i)
        IN HandlerStep(x, s.op, "return",
            [s EXCEPT !.pc = "idle", !.in = i, !.out = res, !.state = res.state])

NextConc ==
    \/ Configure
    \/ \E x \in Instances : HandlerStart(x)
    \/ \E x \in Instances : HandlerCall(x)
    \/ \E x \in Instances : HandlerReturn(x)

SpecConc == Init /\ [][NextConc]_vars

----------------------------------------------------------------------------
(* Specification SpecProvider: M365Provider.Configure, provider.go lines   *)
(* 214-396.  What req.Config.Get and the functions Configure calls return  *)
(* (an error or not) is the input: fails[s] says that step s fails.        *)

\* x, err := step(...); if err != nil { resp.Diagnostics.AddError(...); return }
ProviderStep(acc, name, fails) ==
    IF acc.returned THEN acc
    ELSE IF fails[name]
        THEN [acc EXCEPT !.steps = Append(@, name), !.diags = Append(@, Error),
                         !.returned = TRUE]
    ELSE [acc EXCEPT !.steps = Append(@, name)]

\* mutant: an error of the beta adapter is reported, and Configure goes on
M365ProviderConfigure_PublishesOnBetaError(p, fails) ==
    LET s0 == [returned |-> FALSE, diags |-> <<>>, steps |-> <<>>]
        s1 == ProviderStep(s0, "config", fails)
        s2 == ProviderStep(s1, "cloudConstants", fails)
        s3 == ProviderStep(s2, "clientOptions", fails)
        s4 == ProviderStep(s3, "credential", fails)
        s5 == ProviderStep(s4, "authProvider", fails)
        s6 == ProviderStep(s5, "httpClient", fails)
        s7 == ProviderStep(s6, "stableAdapter", fails)
        s8 == ProviderStep(s7, "betaAdapter", fails)
    IN IF s7.returned
        THEN [p EXCEPT !.configured = TRUE, !.fails = fails,
                       !.diags = s8.diags, !.steps = s8.steps]
        ELSE [p EXCEPT !.configured = TRUE, !.fails = fails,
                       !.diags = s8.diags, !.steps = s8.steps,
                       !.clients = "clients", !.dataSourceData = "clients",
                       !.resourceData = "clients"]

M365ProviderConfigure(p, fails) ==
    LET s0 == [returned |-> FALSE, diags |-> <<>>, steps |-> <<>>]
        s1 == ProviderStep(s0, "config", fails)
        s2 == ProviderStep(s1, "cloudConstants", fails)
        s3 == ProviderStep(s2, "clientOptions", fails)
        s4 == ProviderStep(s3, "credential", fails)
        s5 == ProviderStep(s4, "authProvider", fails)
        s6 == ProviderStep(s5, "httpClient", fails)
        s7 == ProviderStep(s6, "stableAdapter", fails)
        s8 == ProviderStep(s7, "betaAdapter", fails)
    IN IF s8.returned
        THEN [p EXCEPT !.configured = TRUE, !.fails = fails,
                       !.diags = s8.diags, !.steps = s8.steps]
        ELSE [p EXCEPT !.configured = TRUE, !.fails = fails,
                       !.diags = s8.diags, !.steps = s8.steps,
                       !.clients = "clients", !.dataSourceData = "clients",
                       !.resourceData = "clients"]

\* Terraform configures a provider instance once
ProviderConfigure ==
    /\ ~prov.configured
    /\ \E fails \in [DOMAIN NoFailure -> BOOLEAN] :
        prov' = M365ProviderConfigure(prov, fails)
    /\ UNCHANGED schemaVars
    /\ UNCHANGED crudVars
    /\ UNCHANGED caVars
    /\ UNCHANGED inst

\* what a resource's Configure can be handed as req.ProviderData: nil, a
\* value of another type, a GraphClients without a StableClient, a
\* GraphClients with both clients
CloudPcProviderDatas == {Nil, "notGraphClients", "graphClientsNilStable", "graphClients"}

\* mutant: nil provider data is reported as an error
CloudPcConfigure_ErrorsOnNil(cl, pd) ==
    IF pd = Nil THEN [client |-> cl, diags |-> <<Error>>]
    ELSE IF pd \notin {"graphClientsNilStable", "graphClients"}
        THEN [client |-> cl, diags |-> <<Error>>]
    ELSE IF pd = "graphClientsNilStable" THEN [client |-> cl, diags |-> <<>>]
    ELSE [client |-> "stable", diags |-> <<>>]

\* CloudPcProvisioningPolicyResource.Configure, resource.go lines 85-113
CloudPcConfigure(cl, pd) ==
    IF pd = Nil THEN [client |-> cl, diags |-> <<>>]
    ELSE IF pd \notin {"graphClientsNilStable", "graphClients"}
        THEN [client |-> cl, diags |-> <<Error>>]
    ELSE IF pd = "graphClientsNilStable" THEN [client |-> cl, diags |-> <<>>]
    ELSE [client |-> "stable", diags |-> <<>>]

\* the framework configures the resource, before and after the provider's
\* own Configure
CloudPcResourceConfigure ==
    /\ \E pd \in CloudPcProviderDatas :
        LET c == CloudPcConfigure(cpc.client, pd) IN
        cpc' = [run |-> TRUE, providerData |-> pd, before |-> cpc.client,
                client |-> c.client, diags |-> c.diags]
    /\ UNCHANGED <<prov, valid>>
    /\ UNCHANGED crudVars
    /\ UNCHANGED caVars
    /\ UNCHANGED inst

NextProvider == ProviderConfigure \/ CloudPcResourceConfigure

SpecProvider == Init /\ [][NextProvider]_vars

----------------------------------------------------------------------------
(* Specification SpecValidate: the validators of the provider schema,      *)
(* validators.go, run on attribute values of a configuration.              *)

Hex(n) == [class |-> "hex", n |-> n]
Dash == [class |-> "-", n |-> 1]
Other(n) == [class |-> "other", n |-> n]

\* helpers.GuidRegex: five groups of hexadecimal digits, of these lengths,
\* separated by "-", anchored at both ends
GuidRegex == [valid |-> TRUE, groups |-> <<8, 4, 4, 4, 12>>]

\* regexp.MatchString(pattern, s): an error for a pattern that does not
\* compile, else whether s matches
MatchString(pattern, runs) ==
    IF ~pattern.valid THEN [match |-> FALSE, err |-> TRUE]
    ELSE [match |->
            /\ Len(runs) = 2 * Len(pattern.groups) - 1
            /\ \A k \in 1..Len(runs) :
                IF k % 2 = 1 THEN runs[k] = Hex(pattern.groups[(k + 1) \div 2])
                ELSE runs[k] = Dash,
          err |-> FALSE]

\* a well-formed GUID, and the strings one change of a run away from it or
\* one run longer
WellFormed == <<Hex(8), Dash, Hex(4), Dash, Hex(4), Dash, Hex(4), Dash, Hex(12)>>
Replacements == {Hex(n) : n \in {3, 4, 5, 7, 8, 9, 11, 12, 13}} \cup {Dash, Other(1)}
GuidStrings ==
    {[WellFormed EXCEPT ![k] = c] : k \in 1..Len(WellFormed), c \in Replacements}
        \cup {<<>>, <<Other(1)>> \o WellFormed, WellFormed \o <<Other(1)>>,
              <<Hex(32)>>, <<Other(5)>>}
GuidValues == {NullString, UnknownString} \cup {StringOf(r) : r \in GuidStrings}
GuidAttributes == {"tenant_id", "client_id"}

\* mutant: the empty string is matched against the pattern like any value
guidValidatorValidateString_ChecksEmpty(v) ==
    IF v.kind = "null" \/ v.kind = "unknown" THEN <<>>
    ELSE LET m == MatchString(GuidRegex, v.runs) IN
        IF m.err THEN <<Error>>
        ELSE IF ~m.match THEN <<Error>>
        ELSE <<>>

\* guidValidator.ValidateString, validators.go lines 28-55: the diagnostics
\* it adds for config value v
guidValidatorValidateString(v) ==
    IF v.kind = "null" \/ v.kind = "unknown" THEN <<>>
    ELSE IF v.runs = <<>> THEN <<>>
    ELSE LET m == MatchString(GuidRegex, v.runs) IN
        IF m.err THEN <<Error>>
        ELSE IF ~m.match THEN <<Error>>
        ELSE <<>>

\* the values of use_proxy and proxy_url in a configuration
BoolValues == {Null, Unknown, "true", "false"}
ProxyURLs == {Null, Unknown, "", "http://proxy:8080"}

\* mutant: proxy_url is required whatever use_proxy is
useProxyValidatorValidateBool_IgnoresUseProxy(useProxy, proxyURL, useProxyErr, proxyURLErr) ==
    IF useProxyErr THEN <<Error>>
    ELSE IF proxyURLErr THEN <<Error>>
    ELSE IF proxyURL = Null \/ proxyURL = Unknown \/ ValueString(proxyURL) = ""
        THEN <<Error>>
    ELSE <<>>

\* useProxyValidator.ValidateBool, validators.go lines 77-96: the
\* diagnostics it adds; useProxyErr, proxyURLErr: req.Config.GetAttribute
\* returned an error diagnostic for the attribute
useProxyValidatorValidateBool(useProxy, proxyURL, useProxyErr, proxyURLErr) ==
    IF useProxyErr THEN <<Error>>
    ELSE IF proxyURLErr THEN <<Error>>
    ELSE IF ValueBool(useProxy) = "true"
            /\ (proxyURL = Null \/ proxyURL = Unknown \/ ValueString(proxyURL) = "")
        THEN <<Error>>
    ELSE <<>>

ValidateGUID ==
    /\ \E a \in GuidAttributes, v \in GuidValues :
        valid' = [attr |-> a, value |-> v, useProxy |-> Null, proxyURL |-> Null,
                  useProxyErr |-> FALSE, proxyURLErr |-> FALSE,
                  diags |-> guidValidatorValidateString(v)]
    /\ UNCHANGED <<prov, cpc>>
    /\ UNCHANGED crudVars
    /\ UNCHANGED caVars
    /\ UNCHANGED inst

ValidateUseProxy ==
    /\ \E u \in BoolValues, q \in ProxyURLs, ue \in BOOLEAN, qe \in BOOLEAN :
        /\ ue => (~qe /\ q = Null)
        /\ valid' = [attr |-> "use_proxy", value |-> NullString, useProxy |-> u,
                     proxyURL |-> q, useProxyErr |-> ue, proxyURLErr |-> qe,
                     diags |-> useProxyValidatorValidateBool(u, q, ue, qe)]
    /\ UNCHANGED <<prov, cpc>>
    /\ UNCHANGED crudVars
    /\ UNCHANGED caVars
    /\ UNCHANGED inst

NextValidate == ValidateGUID \/ ValidateUseProxy

SpecValidate == Init /\ [][NextValidate]_vars

----------------------------------------------------------------------------
(* Specification SpecCA: attribute models are built by setting up to       *)
(* MaxSet fields on the base model (a field's enclosing objects come into  *)
(* being with it), and constructResource is applied to each.               *)

MaxSet == 1     \* fields set on one attribute model
MaxLen == 2     \* length of the lists tried

EnumType(q) ==
    CASE q = <<"State">> -> "ConditionalAccessPolicyState"
      [] q = <<"Conditions", "ClientAppTypes">> -> "ConditionalAccessClientApp"
      [] q \in {<<"Conditions", "ServicePrincipalRiskLevels">>,
                <<"Conditions", "SignInRiskLevels">>,
                <<"Conditions", "UserRiskLevels">>} -> "RiskLevel"
      [] q = <<"Conditions", "InsiderRiskLevels">> -> "ConditionalAccessInsiderRiskLevels"
      [] q \in {<<"Conditions", "Users", "IncludeGuestsOrExternalUsers", "GuestOrExternalUserTypes">>,
                <<"Conditions", "Users", "ExcludeGuestsOrExternalUsers", "GuestOrExternalUserTypes">>}
            -> "ConditionalAccessGuestOrExternalUserTypes"
      [] q = <<"GrantControls", "Operator">> -> "ConditionalAccessGrantControlOperator"
      [] q = <<"GrantControls", "BuiltInControls">> -> "ConditionalAccessGrantControl"
      [] q = <<"SessionControls", "ContinuousAccessEvaluation", "Mode">>
            -> "ContinuousAccessEvaluationMode"
      [] q = <<"SessionControls", "PersistentBrowser", "Mode">> -> "PersistentBrowserSessionMode"
      [] q = <<"SessionControls", "SignInFrequency", "Type">> -> "SigninFrequencyType"
      [] q = <<"SessionControls", "SignInFrequency", "FrequencyInterval">>
            -> "SignInFrequencyInterval"
      [] q = <<"SessionControls", "SignInFrequency", "AuthenticationType">>
            -> "SignInFrequencyAuthenticationType"

\* the prefix the constructor puts before a parse error of the field
EnumPrefix(q) ==
    CASE q = <<"State">> -> "invalid state"
      [] q = <<"Conditions", "ClientAppTypes">> -> "error parsing client app type"
      [] q = <<"Conditions", "ServicePrincipalRiskLevels">>
            -> "error parsing service principal risk level"
      [] q = <<"Conditions", "SignInRiskLevels">> -> "error parsing sign-in risk level"
      [] q = <<"Conditions", "UserRiskLevels">> -> "error parsing user risk level"
      [] q = <<"Conditions", "InsiderRiskLevels">> -> "error parsing insider risk level"
      [] q \in {<<"Conditions", "Users", "IncludeGuestsOrExternalUsers", "GuestOrExternalUserTypes">>,
                <<"Conditions", "Users", "ExcludeGuestsOrExternalUsers", "GuestOrExternalUserTypes">>}
            -> "error parsing guest or external user types"
      [] q = <<"GrantControls", "Operator">> -> "error parsing grant control operator"
      [] q = <<"GrantControls", "BuiltInControls">> -> "error parsing built-in control"
      [] q = <<"SessionControls", "ContinuousAccessEvaluation", "Mode">>
            -> "error parsing continuous access evaluation mode"
      [] q = <<"SessionControls", "PersistentBrowser", "Mode">>
            -> "error parsing persistent browser session mode"
      [] q = <<"SessionControls", "SignInFrequency", "Type">>
            -> "error parsing sign-in frequency type"
      [] q = <<"SessionControls", "SignInFrequency", "FrequencyInterval">>
            -> "error parsing sign-in frequency interval"
      [] q = <<"SessionControls", "SignInFrequency", "AuthenticationType">>
            -> "error parsing sign-in frequency authentication type"

Bogus == "bogus"    \* a string that is no enumerator of any enumeration

SeqsUpTo(S, n) == UNION {[1..k -> S] : k \in 1..n}

\* the values tried for field q
OptionValues(q) ==
    IF q \in ObjectPaths THEN {Obj}
    ELSE IF q = <<"DisplayName">> THEN {"m"}
    ELSE IF q \in StringPaths THEN {"", "a"}
    ELSE IF q \in EnumPaths THEN {Enumerators(EnumType(q))[1], Bogus}
    ELSE IF q \in BoolPaths THEN {"true", "false"}
    ELSE IF q \in IntPaths THEN {"0", "5"}
    ELSE IF q \in StringListPaths THEN SeqsUpTo({"a", "b"}, MaxLen) \cup {<<Null, "a">>}
    ELSE IF q \in EnumListPaths
        THEN SeqsUpTo({Enumerators(EnumType(q))[1], Enumerators(EnumType(q))[2], Bogus}, MaxLen)
    ELSE {}

IsAncestor(x, q) == Len(x) < Len(q) /\ SubSeq(q, 1, Len(x)) = x

\* every enclosing object of field q is present: the constructor reaches q
Reached(d, q) == \A x \in ObjectPaths : IsAncestor(x, q) => d[x] # Nil

SetField ==
    /\ ~result.run
    /\ nSet < MaxSet
    /\ \E q \in Paths :
        \E v \in OptionValues(q) :
            /\ data' = [x \in Paths |->
                            IF x = q THEN v
                            ELSE IF IsAncestor(x, q) THEN Obj
                            ELSE data[x]]
            /\ nSet' = nSet + 1
            /\ UNCHANGED result
    /\ UNCHANGED crudVars
    /\ UNCHANGED prov
    /\ UNCHANGED schemaVars
    /\ UNCHANGED inst

Construct ==
    /\ ~result.run
    /\ \E sdk \in SdkModes, marshalErr \in BOOLEAN :
        result' = [run |-> TRUE, sdk |-> sdk, marshalErr |-> marshalErr,
                   out |-> constructResource(data, sdk, marshalErr)]
    /\ UNCHANGED <<data, nSet>>
    /\ UNCHANGED crudVars
    /\ UNCHANGED prov
    /\ UNCHANGED schemaVars
    /\ UNCHANGED inst

InitCA ==
    /\ variant = "crud"
    /\ isCreate = FALSE
    /\ client = Nil
    /\ ready = FALSE
    /\ state = Absent
    /\ op = "none"
    /\ in = NoIn
    /\ pre = Absent
    /\ diags = <<>>
    /\ calls = <<>>
    /\ trace = <<>>
    /\ panicked = FALSE
    /\ CAIdle
    /\ ConcIdle
    /\ ProviderNew
    /\ CloudPcNew
    /\ NotValidated

NextCA == SetField \/ Construct

SpecCA == InitCA /\ [][NextCA]_vars

----------------------------------------------------------------------------
(* Properties of the CRUD handlers (checked under Spec) *)

Steps(tr) == {tr[k] : k \in 1..Len(tr)}

\* the constructor was called and returned an error
ConstructorFailed == "construct" \in Steps(trace) /\ in.constructErr
\* a Graph call was issued and returned an error
RemoteFailed == calls # <<>> /\ in.outcome # "ok"
\* a Graph call was issued and succeeded
RemoteOk == calls # <<>> /\ in.outcome = "ok"

\* C1: a Create whose constructor or whose Graph POST returns an error ends
\* with an error diagnostic, and the instance still has no state: the
\* persist step (State.Set) was not run.
C1_CreateFailurePersistsNothing ==
    (op = "Create" /\ (ConstructorFailed \/ RemoteFailed)) =>
        /\ HasError(diags)
        /\ state = Absent
        /\ "persist" \notin Steps(trace)

C1_Witness ==
    /\ op = "Create"
    /\ RemoteFailed
    /\ calls[1].verb = "POST"
    /\ HasError(diags)

\* C2: in every Read handler, a GET that the Graph API answers with
\* not-found removes the instance from state and adds a warning and no
\* error diagnostic.
C2_ReadNotFoundRemovesState ==
    (op = "Read" /\ calls # <<>> /\ IsNotFoundError(in.outcome)) =>
        /\ state = Absent
        /\ HasWarning(diags)
        /\ ~HasError(diags)

\* C3: a Delete that read its request issues exactly one Graph DELETE, by
\* the identifier in the state; if the call returns an error, an error
\* diagnostic is added and the state entry is kept; if it succeeds, the
\* state entry is removed.
C3_DeleteByIdThenRemove ==
    (op = "Delete" /\ ~in.getErr /\ ~in.timeoutErr) =>
        /\ calls = <<Call(WithTimeout(in), "DELETE", ValueString(pre.id))>>
        /\ (in.outcome # "ok" => HasError(diags) /\ state = pre)
        /\ (in.outcome = "ok" => state = Absent)

C3_Witness ==
    /\ op = "Delete"
    /\ RemoteOk
    /\ calls[1].id \in IDs
    /\ pre # Absent
    /\ state = Absent

\* C4: in Create and in Update, when the constructor returns an error no
\* Graph call is issued in that invocation and an error diagnostic is added.
C4_ConstructErrorNoRemoteCall ==
    (op \in {"Create", "Update"} /\ ConstructorFailed) =>
        /\ calls = <<>>
        /\ HasError(diags)

C4_Witness ==
    /\ op = "Update"
    /\ ConstructorFailed
    /\ in.outcome = "ok"
    /\ calls = <<>>

\* C5: every error a Graph call returns to Create, Read, Update or Delete
\* ends in an error diagnostic, except not-found on Read, which removes the
\* state without an error diagnostic; not-found on Update or Delete is an
\* error diagnostic.
C5_RemoteErrorsAreHardErrors ==
    (op \in Handlers /\ RemoteFailed) =>
        IF op = "Read" /\ IsNotFoundError(in.outcome)
            THEN ~HasError(diags) /\ state = Absent
            ELSE HasError(diags)

\* C6: a successful Create runs, in this order and without skipping one,
\* constructor, Graph POST, capture of the returned id, state mapper,
\* persist.
C6_CreateStepOrder ==
    (op = "Create" /\ RemoteOk) =>
        trace = <<"construct", "post", "captureId", "map", "persist">>

C13_TimeoutIsGraphError ==
    (op \in Handlers /\ calls # <<>>) =>
        /\ \A k \in 1..Len(calls) :
            calls[k].ctx = (IF in.timeout = Null THEN DefaultTimeout ELSE in.timeout)
        /\ in.outcome = "timeout" =>
            LET e == Handle(op, variant, client, isCreate, pre, [in EXCEPT !.outcome = "error"])
            IN /\ HasError(diags)
               /\ state = pre
               /\ diags = e.diags
               /\ state = e.state
               /\ trace = e.trace

C13_Witness ==
    /\ op = "Read"
    /\ variant = "crud"
    /\ calls # <<>>
    /\ in.outcome = "timeout"
    /\ in.timeout = "60s"
    /\ calls[1].ctx = "60s"
    /\ HasError(diags)

\* C14: no handler invocation issues more than one Graph call, whatever the
\* call returns.
C14_AtMostOneCall ==
    op \in Handlers => Len(calls) <= 1

C14_Witness ==
    /\ op = "Read"
    /\ variant = "part000"
    /\ in.outcome = "error"
    /\ Len(calls) = 1
    /\ HasError(diags)

\* C15: a not-found error on the PATCH of Update: in crud.go it removes the
\* state with a warning and no error when isCreate is false and is an error
\* with the state kept when isCreate is true; in part_000 it is always an
\* error with the state kept.
C15_UpdateNotFoundPolicy ==
    (op = "Update" /\ calls # <<>> /\ IsNotFoundError(in.outcome)) =>
        IF variant = "crud" /\ ~isCreate
            THEN state = Absent /\ HasWarning(diags) /\ ~HasError(diags)
            ELSE HasError(diags) /\ ~HasWarning(diags) /\ state = pre

C15_Witness ==
    /\ op = "Update"
    /\ variant = "part000"
    /\ calls # <<>>
    /\ IsNotFoundError(in.outcome)
    /\ HasError(diags)
    /\ state = pre

\* C16: a Delete whose Graph DELETE finds the remote resource already absent
\* (the call returns not-found) ends with the state entry removed.
C16_DeleteIdempotent ==
    (op = "Delete" /\ calls # <<>> /\ IsNotFoundError(in.outcome)) => state = Absent

C24_ReadWithoutIdWarns ==
    (op = "Read" /\ variant = "crud" /\ ~in.getErr
        /\ (pre.id = Null \/ ValueString(pre.id) = "")) =>
        /\ diags = <<Warning>>
        /\ calls = <<>>
        /\ trace = <<>>
        /\ state = pre

C24_Witness ==
    /\ op = "Read"
    /\ variant = "crud"
    /\ ~in.getErr
    /\ pre.id = Null
    /\ pre # Absent
    /\ HasWarning(diags)
    /\ state = pre

\* C25: an Update whose PATCH succeeds persists the plan model as the new
\* state: one PATCH is issued, its response is not looked at, no State
\* Mapper and no read-back runs, and the stored state equals the plan.
C25_UpdatePersistsPlan ==
    (op = "Update" /\ RemoteOk) =>
        /\ state = in.plan
        /\ trace = <<"construct", "patch", "persist">>
        /\ Len(calls) = 1
        /\ calls[1].verb = "PATCH"
        /\ diags = <<>>

C25_Witness ==
    /\ op = "Update"
    /\ RemoteOk
    /\ pre.stamp = Stamp
    /\ in.plan.cfg # pre.cfg
    /\ state = in.plan
    /\ state.stamp = Null

\* C26: a Create whose POST succeeds stores the id of the response in the
\* state, and the Graph call of the Read, Update or Delete that follows it
\* is addressed to that id.
C26_CreatedIdAddressed ==
    [][/\ (op' = "Create" /\ calls' # <<>> /\ in'.outcome = "ok") => state'.id = in'.respId
       /\ (op = "Create" /\ RemoteOk /\ op' \in {"Read", "Update", "Delete"} /\ calls' # <<>>) =>
                calls'[1].id = state.id]_vars

\* C27: Configure of the assignment filter sets the client exactly when the
\* provider data is a GraphClients with a BetaClient; for nil provider data,
\* another type or a nil BetaClient it adds an error diagnostic and leaves
\* the client as it was.
C27_ConfigureSetsClientOrErrors ==
    [][op' = "Configure" =>
        IF in'.providerData = "graphClients"
            THEN client' = "beta" /\ ~HasError(diags')
            ELSE HasError(diags') /\ client' = client]_vars

C27_Witness ==
    /\ op = "Configure"
    /\ in.providerData = "graphClientsNilBeta"
    /\ HasError(diags)
    /\ client = "beta"
    /\ ~ready

----------------------------------------------------------------------------
(* Properties of handlers called without a client (checked under           *)
(* SpecDirect)                                                             *)

\* C29: a Create, Read, Update or Delete called while r.client is nil ends
\* with an error diagnostic, without a Graph call, without a state change
\* and without a panic.
C29_NoCallWithoutClient ==
    (op \in Handlers /\ client = Nil) =>
        /\ HasError(diags)
        /\ calls = <<>>
        /\ state = pre
        /\ ~panicked

----------------------------------------------------------------------------
(* Properties of concurrent invocations (checked under SpecConc) *)

\* the invocation on instance x has ended
Ended(x) == inst[x].pc = "idle" /\ inst[x].op # "none"

\* C17: the client handle, and every other field of the resource struct, is
\* written by Configure only: no step of a Create, Read, Update or Delete,
\* in any interleaving of two invocations, changes it.
C17_ClientReadOnlyAfterConfigure ==
    [][(client' # client \/ isCreate' # isCreate \/ variant' # variant)
            => op' = "Configure"]_vars

C17_Witness ==
    /\ client = "beta"
    /\ inst["a"].pc = "called"
    /\ inst["a"].cl = "beta"
    /\ Ended("b")
    /\ inst["b"].op = "Delete"
    /\ inst["b"].out.calls # <<>>

\* C18: in every interleaving, what an invocation leaves (diagnostics,
\* calls, resulting state of its instance) is what the handler computes from
\* its own request and stored state, the responses to its own call, and the
\* resource struct as configured when it started; the other invocation has
\* no part in it.
C18_InvocationsIndependent ==
    \A x \in Instances :
        Ended(x) =>
            /\ inst[x].out = Handle(inst[x].op, variant, inst[x].r0.client,
                                    inst[x].r0.isCreate, inst[x].pre, inst[x].in)
            /\ inst[x].state = inst[x].out.state

C18_Witness ==
    /\ variant = "crud"
    /\ Ended("a")
    /\ inst["a"].op = "Create"
    /\ inst["a"].out.calls # <<>>
    /\ Ended("b")
    /\ inst["b"].op = "Update"
    /\ IsNotFoundError(inst["b"].in.outcome)
    /\ inst["b"].state = Absent
    /\ inst["a"].state # Absent

----------------------------------------------------------------------------
(* Properties of the provider (checked under SpecProvider) *)

\* step k is the first one that fails
FirstFailure(k) ==
    /\ prov.fails[ProviderSteps[k]]
    /\ \A j \in 1..(k - 1) : ~prov.fails[ProviderSteps[j]]

\* C20: when a step of the provider's Configure fails, Configure adds an
\* error diagnostic, runs no step after the first failing one and publishes
\* no clients: ResourceData and DataSourceData stay unset and the provider's
\* clients field keeps the value New gave it.
C20_ConfigureFailurePublishesNothing ==
    \A k \in 1..Len(ProviderSteps) :
        (prov.configured /\ FirstFailure(k)) =>
            /\ HasError(prov.diags)
            /\ prov.steps = SubSeq(ProviderSteps, 1, k)
            /\ prov.resourceData = Nil
            /\ prov.dataSourceData = Nil
            /\ prov.clients = "empty"

C20_Witness ==
    /\ prov.configured
    /\ FirstFailure(Len(ProviderSteps))
    /\ prov.steps = ProviderSteps
    /\ HasError(prov.diags)
    /\ prov.clients = "empty"

\* C28: Configure of the Cloud PC provisioning policy resource returns
\* without a diagnostic and without touching the client (unset on a new
\* resource) when the provider data is nil or its StableClient is nil; it
\* adds an error diagnostic for provider data of another type only, and it
\* sets the client only when the StableClient is there.
C28_CloudPcConfigureSilentOnNil ==
    cpc.run =>
        /\ cpc.providerData \in {Nil, "graphClientsNilStable"} =>
                (cpc.diags = <<>> /\ cpc.client = cpc.before)
        /\ HasError(cpc.diags) <=> cpc.providerData = "notGraphClients"
        /\ cpc.client # cpc.before => cpc.providerData = "graphClients"
        /\ cpc.providerData = "graphClients" => cpc.client = "stable"

C28_Witness ==
    /\ cpc.run
    /\ cpc.providerData = "graphClientsNilStable"
    /\ cpc.before = Nil
    /\ cpc.client = Nil
    /\ cpc.diags = <<>>

----------------------------------------------------------------------------
(* Properties of the schema validators (checked under SpecValidate) *)

\* C21: the use_proxy validator, having read both attributes, adds an error
\* diagnostic exactly when use_proxy is true and proxy_url is null, unknown
\* or the empty string; for use_proxy false, null or unknown it adds none.
C21_UseProxyNeedsProxyURL ==
    (valid.attr = "use_proxy" /\ ~valid.useProxyErr /\ ~valid.proxyURLErr) =>
        /\ HasError(valid.diags) <=>
                (valid.useProxy = "true" /\ valid.proxyURL \in {Null, Unknown, ""})
        /\ valid.useProxy \in {"false", Null, Unknown} => valid.diags = <<>>

C21_Witness ==
    /\ valid.attr = "use_proxy"
    /\ valid.useProxy = "true"
    /\ valid.proxyURL = Unknown
    /\ ~valid.useProxyErr
    /\ ~valid.proxyURLErr
    /\ valid.diags = <<Error>>

\* C22: the GUID validator of tenant_id and client_id adds no diagnostic for
\* a null, unknown or empty value; for any other value it adds exactly one
\* error diagnostic when the value is not of the GUID format and none when
\* it is.
C22_GuidOnlyIfProvided ==
    valid.attr \in GuidAttributes =>
        IF valid.value.kind # "value" \/ valid.value.runs = <<>> THEN valid.diags = <<>>
        ELSE IF valid.value.runs = WellFormed THEN valid.diags = <<>>
        ELSE valid.diags = <<Error>>

C22_Witness ==
    /\ valid.attr = "client_id"
    /\ valid.value.kind = "value"
    /\ Len(valid.value.runs) = Len(WellFormed)
    /\ valid.value.runs # WellFormed
    /\ valid.diags = <<Error>>

----------------------------------------------------------------------------
(* Properties of the conditional access constructor (checked under SpecCA) *)

RECURSIVE Has(_, _)
\* the request model m has the property at path q set
Has(m, q) ==
    IF q = <<>> THEN TRUE
    ELSE Head(q) \in DOMAIN m /\ Has(m[Head(q)], Tail(q))

RECURSIVE Get(_, _)
Get(m, q) == IF q = <<>> THEN m ELSE Get(m[Head(q)], Tail(q))

\* the request property a field is written to: the field's own path, but for
\* SignInFrequency.Type, whose setter is SetTypeEscaped
ReqPath(q) ==
    IF q = <<"SessionControls", "SignInFrequency", "Type">>
        THEN <<"SessionControls", "SignInFrequency", "TypeEscaped">>
    ELSE q

Constructed == result.run /\ result.out.kind = "ok"

Parts(msg) == {msg[k] : k \in 1..Len(msg)}

IsEnumerator(type, v) == \E k \in 1..Len(Enumerators(type)) : Enumerators(type)[k] = v

\* field q is reached and holds a string that is no enumerator of its type
InvalidEnum(q) ==
    /\ Reached(data, q)
    /\ IF q \in EnumPaths
          THEN data[q] # Null /\ ~IsEnumerator(EnumType(q), ValueString(data[q]))
          ELSE \E k \in 1..Len(data[q]) : ~IsEnumerator(EnumType(q), ValueString(data[q][k]))

\* C8: an optional field that is unset (null) in the attribute model is not
\* in the request model the constructor builds: no setter is called for it,
\* so no zero value is sent.  For every optional scalar field, those of the
\* session controls included.
C8_UnsetOptionalOmitted ==
    Constructed =>
        \A q \in ScalarPaths : data[q] = Null => ~Has(result.out.val, ReqPath(q))

\* C9: a string outside the known enumerators in any enum-typed field makes
\* the constructor return an error that names the field and the string, and
\* no request model.
C9_InvalidEnumIsError ==
    (result.run /\ \E q \in EnumPaths \cup EnumListPaths : InvalidEnum(q)) =>
        /\ result.out.kind = "err"
        /\ \E q \in EnumPaths \cup EnumListPaths :
            /\ InvalidEnum(q)
            /\ EnumPrefix(q) \in Parts(result.out.msg)
            /\ Bogus \in Parts(result.out.msg)

\* what the constructor makes of element x of list field q
ElementOf(q, x) ==
    IF q \in EnumListPaths THEN Enum(EnumType(q), ValueString(x)) ELSE ValueString(x)

\* C10: when the constructor succeeds, every list field it reached with
\* n >= 1 elements is in the request as a list of n elements, the i-th
\* being the conversion of the i-th source element.
C10_ListsElementwiseInOrder ==
    Constructed =>
        \A q \in ListPaths :
            (Reached(data, q) /\ Len(data[q]) >= 1) =>
                /\ Has(result.out.val, q)
                /\ Len(Get(result.out.val, q)) = Len(data[q])
                /\ \A k \in 1..Len(data[q]) :
                        Get(result.out.val, q)[k] = ElementOf(q, data[q][k])

C10_Witness ==
    /\ Constructed
    /\ \E q \in StringListPaths :
        /\ Len(data[q]) = MaxLen
        /\ data[q][1] # data[q][MaxLen]
        /\ Has(result.out.val, q)
        /\ Get(result.out.val, q)[1] = ValueString(data[q][1])

\* C11: a list field whose source is absent (no element) is not in the
\* request model: its setter is not called, so no empty list is sent.
C11_AbsentCollectionOmitted ==
    Constructed =>
        \A q \in ListPaths : data[q] = <<>> => ~Has(result.out.val, q)

C11_Witness ==
    /\ Constructed
    /\ \E q \in StringListPaths :
        /\ Reached(data, q)
        /\ data[q] = <<>>
        /\ Has(result.out.val, SubSeq(q, 1, Len(q) - 1))
        /\ ~Has(result.out.val, q)

\* C12: when the serialization of the request body for the debug log fails,
\* constructResource still returns the request model it built, without error.
C12_DebugSerializationNeverFails ==
    (result.run /\ result.marshalErr
        /\ constructResource(data, result.sdk, FALSE).kind = "ok") =>
            /\ result.out.kind = "ok"
            /\ result.out.val = constructResource(data, result.sdk, FALSE).val

\* The State Mapper of the conditional access policy, from the remote
\* resource to the attribute model: every field from the property of the
\* remote resource, and explicitly unset (nil, null, no element) when the
\* property is absent on the wire.  A nil enum pointer is not serialized.
mapRemoteStateToTerraformPolicy(remote) ==
    [q \in Paths |->
        IF q \in UnbuiltPaths THEN Nil
        ELSE IF q \in ObjectPaths THEN (IF Has(remote, q) THEN Obj ELSE Nil)
        ELSE IF q \in ListPaths THEN
            IF ~Has(remote, q) THEN <<>>
            ELSE IF q \in EnumListPaths
                THEN [k \in 1..Len(Get(remote, q)) |-> Get(remote, q)[k].name]
            ELSE Get(remote, q)
        ELSE IF ~Has(remote, ReqPath(q)) THEN Null
        ELSE IF q \in EnumPaths THEN
            (IF Get(remote, ReqPath(q)) = NilEnum THEN Null
             ELSE Get(remote, ReqPath(q)).name)
        ELSE Get(remote, ReqPath(q))]

\* C19: when the constructor succeeds, the State Mapper applied to the
\* request model echoed as the remote resource gives back, for every field
\* the constructor set, the value the field has in the original model.
C19_RoundTrip ==
    Constructed =>
        LET back == mapRemoteStateToTerraformPolicy(result.out.val) IN
        \A q \in Paths \ UnbuiltPaths :
            Has(result.out.val, ReqPath(q)) => back[q] = data[q]

====
